---- MODULE Spec2Model ----
(***************************************************************************)
(* Lifecycle of fuser's AsyncBackgroundSession (src/async_session.rs).     *)
(*                                                                         *)
(* Three parties act concurrently:                                         *)
(*   - the caller thread, which constructs the handle with new() and then  *)
(*     consumes it by join(), by await_umount() (possibly cancelled), or   *)
(*     by letting it go out of scope;                                      *)
(*   - the worker thread spawned by new(), which runs se.run(), attempts   *)
(*     one send on the oneshot channel and returns run()'s result;         *)
(*   - the environment, which may unmount the mount point by a path that   *)
(*     does not involve the handle (fusermount -u).                        *)
(*                                                                         *)
(* Session::run, Mount and tokio's oneshot channel are collaborators; they *)
(* are modelled at the interface the handle uses: run() returns Ok or Err  *)
(* or panics, dropping the Mount unmounts, and the oneshot receiver        *)
(* resolves with Ok(()) after a send and with RecvError once the sender is *)
(* dropped unsent.                                                         *)
(***************************************************************************)
EXTENDS Naturals, FiniteSets

\* libc::ENODEV, the raw OS error new() returns when se.mount is None
ENODEV == 19

VARIABLES
    pc,            \* position of the caller thread
    seMount,       \* se.mount is Some(_) (TRUE) or None (FALSE)
    hadMount,      \* se.mount as it was when the session was handed to new()
    seOwner,       \* who owns the Session value: "caller", "worker", "dropped"
    tokenOwner,    \* owner of the Mount value: "session", "handle", "none"
    tokenReleases, \* how many times a Mount value has been dropped (unmount run)
    mounted,       \* the mount point is active in the kernel
    unmountBy,     \* what made the mount point inactive: "none", "external", "handle"
    errno,         \* raw OS error of the io::Error returned by new(), 0 if none
    guard,         \* JoinHandle: "none", "held", "joined", "detached"
    worker,        \* position of the worker thread
    res,           \* terminal result of the worker: "none", "ok", "err", "panic"
    cause,         \* why run() ended: "none", "self", "unmount"
    threadsSpawned,\* number of thread::spawn calls
    runCalls,      \* number of se.run() invocations
    sendAttempts,  \* number of s.send(()) invocations
    sender,        \* oneshot Sender: "none", "alive", "used", "dropped"
    chanValue,     \* a () is stored in the oneshot channel
    receiver,      \* oneshot Receiver: "none", "alive", "awaited", "closed"
    recvResult,    \* what self._receiver.await produced: "none", "Ok", "RecvError"
    awaitOut,      \* value await_umount handed to its caller: "none", "unit", ...
    awaitResolves  \* number of times the await_umount future completed

vars == <<pc, seMount, hadMount, seOwner, tokenOwner, tokenReleases, mounted,
          unmountBy, errno, guard, worker, res, cause, threadsSpawned,
          runCalls, sendAttempts, sender, chanValue, receiver, recvResult,
          awaitOut, awaitResolves>>

callerVars == <<pc, errno, guard, recvResult, awaitOut, awaitResolves>>
sessionVars == <<seMount, hadMount, seOwner>>
mountVars == <<tokenOwner, tokenReleases, mounted, unmountBy>>
workerVars == <<worker, res, cause, threadsSpawned, runCalls, sendAttempts>>
chanVars == <<sender, chanValue, receiver>>

PcValues == {"start", "new_failed", "created",
             "join_wait", "join_returned", "join_aborted",
             "awaiting", "await_resolved",
             "cancelling", "await_cancelled",
             "drop_closing", "dropped"}

WorkerValues == {"none", "spawned", "in_run", "run_returned", "signalled",
                 "exited", "panicked"}

TypeOK ==
    /\ pc \in PcValues
    /\ seMount \in BOOLEAN /\ hadMount \in BOOLEAN
    /\ seOwner \in {"caller", "worker", "dropped"}
    /\ tokenOwner \in {"session", "handle", "none"}
    /\ tokenReleases \in 0..2
    /\ mounted \in BOOLEAN
    /\ unmountBy \in {"none", "external", "handle"}
    /\ errno \in {0, ENODEV}
    /\ guard \in {"none", "held", "joined", "detached"}
    /\ worker \in WorkerValues
    /\ res \in {"none", "ok", "err", "panic"}
    /\ cause \in {"none", "self", "unmount"}
    /\ threadsSpawned \in 0..2 /\ runCalls \in 0..2 /\ sendAttempts \in 0..2
    /\ sender \in {"none", "alive", "used", "dropped"}
    /\ chanValue \in BOOLEAN
    /\ receiver \in {"none", "alive", "awaited", "closed"}
    /\ recvResult \in {"none", "Ok", "RecvError"}
    /\ awaitOut \in {"none", "unit", "Ok", "RecvError"}
    /\ awaitResolves \in 0..2

(***************************************************************************)
(* Init: the caller holds a Session that is either mounted (se.mount is    *)
(* Some and the mount point is active) or has no Mount.  A session without *)
(* a Mount may still sit on an active mount point whose Mount was taken by *)
(* someone else.                                                           *)
(***************************************************************************)
Init ==
    /\ pc = "start"
    /\ seMount \in BOOLEAN
    /\ hadMount = seMount
    /\ seOwner = "caller"
    /\ tokenOwner = IF seMount THEN "session" ELSE "none"
    /\ tokenReleases = 0
    /\ mounted \in (IF seMount THEN {TRUE} ELSE BOOLEAN)
    /\ unmountBy = "none"
    /\ errno = 0
    /\ guard = "none"
    /\ worker = "none"
    /\ res = "none"
    /\ cause = "none"
    /\ threadsSpawned = 0
    /\ runCalls = 0
    /\ sendAttempts = 0
    /\ sender = "none"
    /\ chanValue = FALSE
    /\ receiver = "none"
    /\ recvResult = "none"
    /\ awaitOut = "none"
    /\ awaitResolves = 0

\* variant: the Mount is forgotten instead of dropped, so no unmount runs
DropMount_Forgets ==
    /\ tokenOwner' = "none"
    /\ UNCHANGED <<tokenReleases, mounted, unmountBy>>

(***************************************************************************)
(* Dropping the Mount value runs the unmount.                              *)
(***************************************************************************)
DropMount ==
    /\ tokenOwner' = "none"
    /\ tokenReleases' = tokenReleases + 1
    /\ mounted' = FALSE
    /\ unmountBy' = IF mounted THEN "handle" ELSE unmountBy

(***************************************************************************)
(* AsyncBackgroundSession::new                                             *)
(*   let mount = std::mem::take(&mut se.mount);                            *)
(*   let (s, r) = channel();                                               *)
(*   let mount = mount.ok_or_else(|| from_raw_os_error(ENODEV))?;          *)
(*   let guard = thread::spawn(move || { ... });                           *)
(*   Ok(AsyncBackgroundSession { mountpoint, guard, _mount: mount, .. })   *)
(* new() takes the Session by value.  On the error return the locals se,   *)
(* s and r go out of scope and are dropped; only the io::Error reaches the *)
(* caller.                                                                 *)
(***************************************************************************)
\* variant: the thread is spawned before the missing Mount is reported
NewErr_SpawnFirst ==
    /\ pc = "start"
    /\ ~seMount
    /\ pc' = "new_failed"
    /\ errno' = ENODEV
    /\ seOwner' = "worker"
    /\ sender' = "alive"
    /\ receiver' = "closed"
    /\ worker' = "spawned"
    /\ threadsSpawned' = threadsSpawned + 1
    /\ UNCHANGED <<seMount, hadMount, mountVars, guard, res, cause, runCalls,
                   sendAttempts, chanValue, recvResult, awaitOut,
                   awaitResolves>>

\* variant: the session is borrowed, so the caller still has it after the error
NewErr_KeepsSession ==
    /\ pc = "start"
    /\ ~seMount
    /\ pc' = "new_failed"
    /\ errno' = ENODEV
    /\ sender' = "dropped"
    /\ receiver' = "closed"
    /\ UNCHANGED <<sessionVars, mountVars, guard, workerVars, chanValue,
                   recvResult, awaitOut, awaitResolves>>

NewErr ==
    /\ pc = "start"
    /\ ~seMount
    /\ pc' = "new_failed"
    /\ errno' = ENODEV
    /\ seOwner' = "dropped"
    /\ sender' = "dropped"
    /\ receiver' = "closed"
    /\ UNCHANGED <<seMount, hadMount, mountVars, guard, workerVars, chanValue,
                   recvResult, awaitOut, awaitResolves>>

\* variant: the handle is returned without a thread having been spawned
NewOk_NoSpawn ==
    /\ pc = "start"
    /\ seMount
    /\ pc' = "created"
    /\ seMount' = FALSE
    /\ tokenOwner' = "handle"
    /\ sender' = "alive"
    /\ receiver' = "alive"
    /\ guard' = "held"
    /\ UNCHANGED <<hadMount, seOwner, tokenReleases, mounted, unmountBy,
                   errno, workerVars, chanValue, recvResult, awaitOut,
                   awaitResolves>>

\* variant: the Mount is not taken out of the session before it is moved
\* into the thread
NewOk_MountStaysInSession ==
    /\ pc = "start"
    /\ seMount
    /\ pc' = "created"
    /\ seOwner' = "worker"
    /\ sender' = "alive"
    /\ receiver' = "alive"
    /\ guard' = "held"
    /\ worker' = "spawned"
    /\ threadsSpawned' = threadsSpawned + 1
    /\ UNCHANGED <<seMount, hadMount, mountVars, errno, res, cause, runCalls,
                   sendAttempts, chanValue, recvResult, awaitOut,
                   awaitResolves>>

NewOk ==
    /\ pc = "start"
    /\ seMount
    /\ pc' = "created"
    /\ seMount' = FALSE
    /\ tokenOwner' = "handle"
    /\ seOwner' = "worker"
    /\ sender' = "alive"
    /\ receiver' = "alive"
    /\ guard' = "held"
    /\ worker' = "spawned"
    /\ threadsSpawned' = threadsSpawned + 1
    /\ UNCHANGED <<hadMount, tokenReleases, mounted, unmountBy, errno, res,
                   cause, runCalls, sendAttempts, chanValue, recvResult,
                   awaitOut, awaitResolves>>

New == NewErr \/ NewOk

(***************************************************************************)
(* The worker closure                                                      *)
(*   let mut se = se;                                                      *)
(*   let res = se.run();                                                   *)
(*   let _ = s.send(());                                                   *)
(*   res                                                                   *)
(***************************************************************************)
\* the spawned thread is scheduled and calls se.run()
WorkerStart ==
    /\ worker = "spawned"
    /\ worker' = "in_run"
    /\ runCalls' = runCalls + 1
    /\ UNCHANGED <<callerVars, sessionVars, mountVars, chanVars, res, cause,
                   threadsSpawned, sendAttempts>>

\* se.run() returns r; an inactive mount point makes its read report the
\* unmount, an active one means the loop ended by itself
RunReturn(r) ==
    /\ worker = "in_run"
    /\ worker' = "run_returned"
    /\ res' = r
    /\ cause' = IF mounted THEN "self" ELSE "unmount"
    /\ UNCHANGED <<callerVars, sessionVars, mountVars, chanVars,
                   threadsSpawned, runCalls, sendAttempts>>

\* se.run() panics: unwinding drops se and the unsent Sender, and the thread
\* ends with the panic as its outcome
RunPanic ==
    /\ worker = "in_run"
    /\ worker' = "panicked"
    /\ res' = "panic"
    /\ cause' = "self"
    /\ sender' = "dropped"
    /\ seOwner' = "dropped"
    /\ UNCHANGED <<callerVars, seMount, hadMount, mountVars, chanValue,
                   receiver, threadsSpawned, runCalls, sendAttempts>>

\* variant: an Err from run() is returned with ? before the send
WorkerSend_OnlyOnOk ==
    /\ worker = "run_returned"
    /\ sender = "alive"
    /\ worker' = "signalled"
    /\ sendAttempts' = IF res = "ok" THEN sendAttempts + 1 ELSE sendAttempts
    /\ sender' = IF res = "ok" THEN "used" ELSE "dropped"
    /\ chanValue' = (res = "ok" /\ receiver \in {"alive", "awaited"})
    /\ UNCHANGED <<callerVars, sessionVars, mountVars, receiver, res, cause,
                   threadsSpawned, runCalls>>

\* variant: the notification is sent before the loop is run
WorkerSend_BeforeRun ==
    /\ worker = "spawned"
    /\ sender = "alive"
    /\ worker' = "in_run"
    /\ runCalls' = runCalls + 1
    /\ sendAttempts' = sendAttempts + 1
    /\ sender' = "used"
    /\ chanValue' = (receiver \in {"alive", "awaited"})
    /\ UNCHANGED <<callerVars, sessionVars, mountVars, receiver, res, cause,
                   threadsSpawned>>

\* let _ = s.send(()): stores the value if the Receiver still exists, fails
\* otherwise; the failure is ignored
WorkerSend ==
    /\ worker = "run_returned"
    /\ sender = "alive"
    /\ worker' = "signalled"
    /\ sendAttempts' = sendAttempts + 1
    /\ sender' = "used"
    /\ chanValue' = (receiver \in {"alive", "awaited"})
    /\ UNCHANGED <<callerVars, sessionVars, mountVars, receiver, res, cause,
                   threadsSpawned, runCalls>>

\* the closure returns res; se is dropped and the thread terminates
WorkerExit ==
    /\ worker = "signalled"
    /\ worker' = "exited"
    /\ seOwner' = "dropped"
    /\ UNCHANGED <<callerVars, seMount, hadMount, mountVars, chanVars, res,
                   cause, threadsSpawned, runCalls, sendAttempts>>

\* run() returns because its mount point is no longer active
RunReturnsAfterUnmount == ~mounted /\ \E r \in {"ok", "err"} : RunReturn(r)

WorkerTerminated == worker \in {"exited", "panicked"}

(***************************************************************************)
(* The mount point is unmounted by a path outside the handle.              *)
(***************************************************************************)
ExternalUnmount ==
    /\ mounted
    /\ mounted' = FALSE
    /\ unmountBy' = "external"
    /\ UNCHANGED <<callerVars, sessionVars, tokenOwner, tokenReleases,
                   workerVars, chanVars>>

(***************************************************************************)
(* AsyncBackgroundSession::join                                            *)
(*   let Self { mountpoint: _, guard, _mount, _receiver: _ } = self;       *)
(*   drop(_mount);                                                         *)
(*   guard.join().unwrap().unwrap();                                       *)
(* The fields matched with _ stay in self and are dropped when join's      *)
(* scope ends, by return or by unwinding.                                  *)
(***************************************************************************)
\* variant: join blocks on the thread while still holding the Mount
JoinBegin_WaitFirst ==
    /\ pc = "created"
    /\ pc' = "join_wait"
    /\ UNCHANGED <<errno, guard, recvResult, awaitOut, awaitResolves,
                   sessionVars, mountVars, workerVars, chanVars>>

\* drop(_mount)
JoinBegin ==
    /\ pc = "created"
    /\ pc' = "join_wait"
    /\ DropMount
    /\ UNCHANGED <<errno, guard, recvResult, awaitOut, awaitResolves,
                   sessionVars, workerVars, chanVars>>

\* variant: a single unwrap, so only a panic of the thread aborts
JoinOutcome_SingleUnwrap(r) ==
    IF r = "panic" THEN "join_aborted" ELSE "join_returned"

\* .unwrap().unwrap() on the thread's outcome: only Ok(Ok(())) gets through
JoinOutcome(r) == IF r = "ok" THEN "join_returned" ELSE "join_aborted"

\* variant: the JoinHandle is dropped instead of joined
JoinFinish_NoWait ==
    /\ pc = "join_wait"
    /\ pc' = "join_returned"
    /\ guard' = "detached"
    /\ receiver' = "closed"
    /\ UNCHANGED <<errno, recvResult, awaitOut, awaitResolves, sessionVars,
                   mountVars, workerVars, sender, chanValue>>

\* guard.join() blocks until the worker thread has terminated
JoinFinish ==
    /\ pc = "join_wait"
    /\ WorkerTerminated
    /\ pc' = JoinOutcome(res)
    /\ guard' = "joined"
    /\ receiver' = "closed"
    /\ UNCHANGED <<errno, recvResult, awaitOut, awaitResolves, sessionVars,
                   mountVars, workerVars, sender, chanValue>>

(***************************************************************************)
(* AsyncBackgroundSession::await_umount                                    *)
(*   let _ = self._receiver.await;                                         *)
(* The future owns the handle.  When the Receiver resolves, its result is  *)
(* discarded and the rest of self (guard, _mount) is dropped at the end of *)
(* the body.  Dropping the future while it is suspended drops the handle.  *)
(***************************************************************************)
\* variant: await_umount drops the Mount on entry, as join does
AwaitCall_Unmounts ==
    /\ pc = "created"
    /\ pc' = "awaiting"
    /\ receiver' = "awaited"
    /\ DropMount
    /\ UNCHANGED <<errno, guard, recvResult, awaitOut, awaitResolves,
                   sessionVars, workerVars, sender, chanValue>>

\* the future is created and polled; it stays suspended until the channel
\* is complete
AwaitCall ==
    /\ pc = "created"
    /\ pc' = "awaiting"
    /\ receiver' = "awaited"
    /\ UNCHANGED <<errno, guard, recvResult, awaitOut, awaitResolves,
                   sessionVars, mountVars, workerVars, sender, chanValue>>

\* variant: the Receiver is probed once instead of awaited
ReceiverReady_Always == TRUE

\* variant: only a sent value completes the wait
ReceiverReady_ValueOnly == chanValue

\* the oneshot Receiver future is complete once a value was sent or the
\* Sender was dropped
ReceiverReady == chanValue \/ sender = "dropped"

\* Ok(()) if a value is stored, Err(RecvError) if the Sender is gone unsent
ReceiverResult == IF chanValue THEN "Ok" ELSE "RecvError"

\* variant: the Receiver's result is unwrapped
AwaitOutcome_Unwraps(r) == IF r = "RecvError" THEN "RecvError" ELSE "unit"

\* variant: the Receiver's result is returned to the caller
AwaitOutcome_Surfaced(r) == r

\* let _ = ...: the Receiver's result is discarded, await_umount returns ()
AwaitOutcome(r) == "unit"

\* variant: await_umount borrows the handle, which is usable again afterwards
AwaitResolve_BorrowsHandle ==
    /\ pc = "awaiting"
    /\ ReceiverReady
    /\ pc' = "created"
    /\ recvResult' = ReceiverResult
    /\ awaitOut' = AwaitOutcome(ReceiverResult)
    /\ awaitResolves' = awaitResolves + 1
    /\ chanValue' = FALSE
    /\ receiver' = "closed"
    /\ UNCHANGED <<errno, guard, sessionVars, mountVars, workerVars, sender>>

\* variant: await_umount joins the worker thread after the signal
AwaitResolve_Joins ==
    /\ pc = "awaiting"
    /\ ReceiverReady
    /\ WorkerTerminated
    /\ pc' = "await_resolved"
    /\ recvResult' = ReceiverResult
    /\ awaitOut' = AwaitOutcome(ReceiverResult)
    /\ awaitResolves' = awaitResolves + 1
    /\ chanValue' = FALSE
    /\ receiver' = "closed"
    /\ guard' = "joined"
    /\ DropMount
    /\ UNCHANGED <<errno, sessionVars, workerVars, sender>>

AwaitResolve ==
    /\ pc = "awaiting"
    /\ ReceiverReady
    /\ pc' = "await_resolved"
    /\ recvResult' = ReceiverResult
    /\ awaitOut' = AwaitOutcome(ReceiverResult)
    /\ awaitResolves' = awaitResolves + 1
    /\ chanValue' = FALSE
    /\ receiver' = "closed"
    /\ guard' = "detached"
    /\ DropMount
    /\ UNCHANGED <<errno, sessionVars, workerVars, sender>>

\* the suspended future is dropped by its task (the other select! branch won)
AwaitCancel ==
    /\ pc = "awaiting"
    /\ pc' = "cancelling"
    /\ UNCHANGED <<errno, guard, recvResult, awaitOut, awaitResolves,
                   sessionVars, mountVars, workerVars, chanVars>>

\* variant: the cancelled future leaks the handle's Mount
CancelDropMount_Leaks ==
    /\ pc = "cancelling"
    /\ tokenOwner = "handle"
    /\ guard' = "detached"
    /\ tokenOwner' = "none"
    /\ UNCHANGED <<pc, errno, recvResult, awaitOut, awaitResolves,
                   sessionVars, tokenReleases, mounted, unmountBy,
                   workerVars, chanVars>>

\* the dropped future drops the handle's guard and _mount ...
CancelDropMount ==
    /\ pc = "cancelling"
    /\ tokenOwner = "handle"
    /\ guard' = "detached"
    /\ DropMount
    /\ UNCHANGED <<pc, errno, recvResult, awaitOut, awaitResolves,
                   sessionVars, workerVars, chanVars>>

\* ... and the Receiver it was polling, in an order the generated future
\* decides
CancelDropReceiver ==
    /\ pc = "cancelling"
    /\ receiver = "awaited"
    /\ receiver' = "closed"
    /\ UNCHANGED <<callerVars, sessionVars, mountVars, workerVars, sender,
                   chanValue>>

CancelDone ==
    /\ pc = "cancelling"
    /\ tokenOwner = "none"
    /\ receiver = "closed"
    /\ pc' = "await_cancelled"
    /\ UNCHANGED <<errno, guard, recvResult, awaitOut, awaitResolves,
                   sessionVars, mountVars, workerVars, chanVars>>

(***************************************************************************)
(* The handle goes out of scope unused.  AsyncBackgroundSession has no     *)
(* Drop impl, so its fields are dropped in declaration order: mountpoint,  *)
(* guard (the thread is detached), _mount (unmount), _receiver.            *)
(***************************************************************************)
\* variant: dropping the handle joins the worker thread first
DropHandle_Joins ==
    /\ pc = "created"
    /\ WorkerTerminated
    /\ pc' = "drop_closing"
    /\ guard' = "joined"
    /\ DropMount
    /\ UNCHANGED <<errno, recvResult, awaitOut, awaitResolves, sessionVars,
                   workerVars, chanVars>>

DropHandle ==
    /\ pc = "created"
    /\ pc' = "drop_closing"
    /\ guard' = "detached"
    /\ DropMount
    /\ UNCHANGED <<errno, recvResult, awaitOut, awaitResolves, sessionVars,
                   workerVars, chanVars>>

DropFinish ==
    /\ pc = "drop_closing"
    /\ pc' = "dropped"
    /\ receiver' = "closed"
    /\ UNCHANGED <<errno, guard, recvResult, awaitOut, awaitResolves,
                   sessionVars, mountVars, workerVars, sender, chanValue>>

Next ==
    \/ New
    \/ WorkerStart
    \/ \E r \in {"ok", "err"} : RunReturn(r)
    \/ RunPanic
    \/ WorkerSend
    \/ WorkerExit
    \/ ExternalUnmount
    \/ JoinBegin
    \/ JoinFinish
    \/ AwaitCall
    \/ AwaitResolve
    \/ AwaitCancel
    \/ CancelDropMount
    \/ CancelDropReceiver
    \/ CancelDone
    \/ DropHandle
    \/ DropFinish

Spec == Init /\ [][Next]_vars

(***************************************************************************)
(* Scheduling: a spawned thread runs, a thread that can take a step        *)
(* eventually takes it, run() returns once its mount point is inactive,    *)
(* the executor polls a woken task, and a drop that has begun finishes.    *)
(* Nothing obliges the caller to start join, await_umount or a drop, the   *)
(* environment to unmount, or the loop to end while mounted.               *)
(***************************************************************************)
Fairness ==
    /\ WF_vars(WorkerStart)
    /\ WF_vars(RunReturnsAfterUnmount)
    /\ WF_vars(WorkerSend)
    /\ WF_vars(WorkerExit)
    /\ WF_vars(JoinFinish)
    /\ WF_vars(AwaitResolve)
    /\ WF_vars(CancelDropMount)
    /\ WF_vars(CancelDropReceiver)
    /\ WF_vars(CancelDone)
    /\ WF_vars(DropFinish)

LiveSpec == Init /\ [][Next]_vars /\ Fairness

(***************************************************************************)
(* Properties                                                              *)
(***************************************************************************)

\* C1: in join the Mount is dropped before the caller blocks on the worker
\* thread: whenever the caller is blocked in guard.join(), or past it, the
\* token has been released exactly once and the mount point is inactive; and
\* the release does not depend on the worker: it can be taken from every
\* state in which the caller holds the handle.
JoinReleasesBeforeBlocking ==
    /\ pc \in {"join_wait", "join_returned", "join_aborted"}
          => tokenOwner = "none" /\ tokenReleases = 1 /\ ~mounted
    /\ pc = "created" => ENABLED JoinBegin

\* join is blocked on a worker that is still inside run(), token released
JoinBlockedOnRunningWorker ==
    pc = "join_wait" /\ worker = "in_run" /\ tokenOwner = "none"

\* C2: when join has returned normally the mount point is inactive, the
\* token is released, and the worker thread has terminated and been joined.
JoinReturnImpliesUnmountedAndJoined ==
    pc = "join_returned"
        => /\ ~mounted
           /\ tokenOwner = "none"
           /\ tokenReleases = 1
           /\ WorkerTerminated
           /\ guard = "joined"

\* join returned after the loop ended because of an external unmount
JoinReturnedAfterExternalUnmount ==
    pc = "join_returned" /\ unmountBy = "external" /\ cause = "unmount"

\* C3: join returns normally only if run() returned Ok, and aborts only if
\* run() returned Err or the worker panicked; as join leaves its wait by
\* exactly one of the two, it returns normally iff run() returned Ok.
JoinReturnsIffRunOk ==
    /\ pc = "join_returned" => res = "ok"
    /\ pc = "join_aborted" => res \in {"err", "panic"}
    /\ (pc = "join_wait" /\ WorkerTerminated) => ENABLED JoinFinish

\* join aborted on a worker whose run() returned an I/O error
JoinAbortedOnRunError ==
    pc = "join_aborted" /\ res = "err" /\ worker = "exited"

\* C4: when the session handed to new() has no Mount, new() fails with
\* ENODEV, and no thread is ever spawned and run() is never invoked.
NoMountFailsWithoutSpawn ==
    (~hadMount /\ pc # "start")
        => /\ pc = "new_failed"
           /\ errno = ENODEV
           /\ worker = "none"
           /\ threadsSpawned = 0
           /\ runCalls = 0
           /\ guard = "none"

\* new() has returned the error for a session without a Mount
NewFailedNoMount ==
    pc = "new_failed" /\ ~hadMount /\ errno = ENODEV

\* C5 as claimed: after a failed construction the caller still has the
\* session; the constructor did not drop or consume it.
SessionHandedBackOnError ==
    pc = "new_failed" => seOwner = "caller"

\* C5: when construction fails for lack of a Mount, the constructor has
\* consumed the session and dropped it; the session was not run, no Mount
\* was released for it and its mount field is still None.
SessionDroppedOnError ==
    pc = "new_failed"
        => /\ seOwner = "dropped"
           /\ ~seMount
           /\ tokenReleases = 0
           /\ unmountBy # "handle"
           /\ runCalls = 0

\* new() has failed and the session value no longer exists
NewFailedSessionGone ==
    pc = "new_failed" /\ seOwner = "dropped" /\ worker = "none"

\* C6: dropping the handle releases the token and detaches the thread
\* without waiting for it: the drop can be taken, and completed, in every
\* worker state, and after it the worker terminates by itself.
DropReleasesWithoutWaiting ==
    /\ [](pc \in {"drop_closing", "dropped"}
             => tokenOwner = "none" /\ tokenReleases = 1 /\ ~mounted
                /\ guard = "detached")
    /\ [](pc = "created" => ENABLED DropHandle)
    /\ [](pc = "drop_closing" => ENABLED DropFinish)
    /\ (pc = "dropped" ~> WorkerTerminated)

\* the drop is complete while the worker is still inside run()
DroppedWhileWorkerInRun ==
    pc = "dropped" /\ worker = "in_run" /\ tokenOwner = "none"

\* C7: a send has been attempted only if run() has returned, so whenever
\* await_umount has resolved the loop is no longer running.
SignalOnlyAfterRunReturned ==
    /\ sendAttempts > 0
          => worker \in {"signalled", "exited"} /\ res \in {"ok", "err"}
    /\ chanValue => sendAttempts > 0
    /\ pc = "await_resolved" => worker \in {"signalled", "exited", "panicked"}

\* await_umount resolved by the sent value, worker thread not yet exited
ResolvedBySignal ==
    pc = "await_resolved" /\ recvResult = "Ok" /\ worker = "signalled"

\* C8: a waiter suspended in await_umount whose mount point is unmounted
\* from outside does not stay suspended: it resolves, unless its task
\* cancels it first; and the wait resolves at most once.
ExternalUnmountResolvesWaiter ==
    /\ [](awaitResolves <= 1)
    /\ [](pc = "await_resolved" => awaitResolves = 1)
    /\ ((pc = "awaiting" /\ unmountBy = "external")
            ~> pc \in {"await_resolved", "cancelling", "await_cancelled"})

\* the waiter resolved after an external unmount ended the loop
ResolvedAfterExternalUnmount ==
    /\ pc = "await_resolved"
    /\ unmountBy = "external"
    /\ cause = "unmount"
    /\ awaitResolves = 1

\* C9: while the waiter is suspended the handle still owns the unreleased
\* token and the thread is not joined; if the mount point is inactive, or
\* the loop ended because of an unmount, the unmount was external.
AwaitKeepsTokenWhileSuspended ==
    pc = "awaiting"
        => /\ tokenOwner = "handle"
           /\ tokenReleases = 0
           /\ guard = "held"
           /\ unmountBy # "handle"
           /\ (~mounted => unmountBy = "external")
           /\ (cause = "unmount" => unmountBy = "external")

\* the waiter is suspended while the worker is inside run()
SuspendedWhileWorkerInRun ==
    pc = "awaiting" /\ worker = "in_run" /\ mounted

Reclaimed ==
    pc \in {"join_returned", "join_aborted", "await_resolved",
            "await_cancelled", "dropped"}

\* C11: the Mount has one owner at a time, moving from the session to the
\* handle to nobody; it is released at most once, it is released exactly
\* when nobody owns it any more, and once the handle is reclaimed by any
\* path it has been released exactly once.
TokenSingleOwnerReleasedOnce ==
    /\ tokenReleases <= 1
    /\ (tokenOwner = "session") = (seMount /\ pc = "start")
    /\ tokenOwner = "handle" => ~seMount /\ tokenReleases = 0
    /\ (hadMount /\ tokenOwner = "none") => tokenReleases = 1
    /\ ~hadMount => tokenOwner = "none" /\ tokenReleases = 0
    /\ Reclaimed => tokenOwner = "none" /\ tokenReleases = 1

\* a cancelled await_umount has reclaimed the handle, token released once
CancelledAndReleasedOnce ==
    pc = "await_cancelled" /\ tokenOwner = "none" /\ tokenReleases = 1

\* C12: from a session with a Mount, new() succeeds and has spawned the one
\* worker thread when it returns; the returned handle owns the unreleased
\* token, and no further thread is ever spawned.
ValidMountSpawnsOneWorker ==
    /\ threadsSpawned <= 1
    /\ (hadMount /\ pc # "start")
          => /\ pc # "new_failed"
             /\ errno = 0
             /\ threadsSpawned = 1
             /\ worker # "none"
             /\ guard # "none"
    /\ pc = "created"
          => tokenOwner = "handle" /\ tokenReleases = 0 /\ guard = "held"

\* new() has just returned the handle; the thread exists, run() not yet called
CreatedWithSpawnedWorker ==
    pc = "created" /\ worker = "spawned" /\ threadsSpawned = 1

\* C13: join, await_umount and drop each start only from a held handle and
\* take it away for good: the caller never holds the handle again, and a
\* caller on one of the three paths never moves to another.
HandleConsumedOnce ==
    [][/\ (JoinBegin \/ AwaitCall \/ DropHandle) => pc = "created"
       /\ pc \notin {"start", "created"} => pc' \notin {"start", "created"}
       /\ pc \in {"join_wait", "join_returned", "join_aborted"}
             => pc' \in {"join_wait", "join_returned", "join_aborted"}
       /\ pc \in {"awaiting", "await_resolved", "cancelling",
                  "await_cancelled"}
             => pc' \in {"awaiting", "await_resolved", "cancelling",
                         "await_cancelled"}
       /\ pc \in {"drop_closing", "dropped"}
             => pc' \in {"drop_closing", "dropped"}]_vars

\* await_umount has consumed the handle and completed
HandleConsumedByAwait ==
    pc = "await_resolved" /\ awaitResolves = 1 /\ guard = "detached"

\* C14 as claimed: whenever the worker has terminated, by run() returning
\* Ok or Err or by a panic inside run(), it has attempted exactly one send.
ExactlyOneSendHoweverTerminated ==
    WorkerTerminated => sendAttempts = 1

\* C14: the worker attempts at most one send; it has attempted exactly one
\* once it is past the send after run() returned Ok or Err, and none when
\* it panicked inside run(), where the Sender is dropped unsent instead.
OneSendUnlessPanicked ==
    /\ sendAttempts <= 1
    /\ worker \in {"signalled", "exited"}
          => sendAttempts = 1 /\ sender = "used" /\ res \in {"ok", "err"}
    /\ worker = "panicked"
          => sendAttempts = 0 /\ sender = "dropped" /\ ~chanValue
    /\ worker \in {"none", "spawned", "in_run", "run_returned"}
          => sendAttempts = 0

\* the worker panicked inside run() and never sent
PanickedWithoutSend ==
    worker = "panicked" /\ sendAttempts = 0 /\ sender = "dropped"

\* C15: a waiter suspended in await_umount whose Sender was dropped without
\* a send does not stay suspended (it resolves, unless its task cancels it
\* first), and a wait resolved by the closed channel hands the caller the
\* same () as any other, not an error.
ClosedSignalResolvesWaiter ==
    /\ [](pc = "await_resolved" => awaitOut = "unit")
    /\ []((pc = "await_resolved" /\ sendAttempts = 0)
             => recvResult = "RecvError" /\ sender = "dropped")
    /\ ((pc = "awaiting" /\ sender = "dropped")
            ~> pc \in {"await_resolved", "cancelling", "await_cancelled"})

\* the wait resolved on a channel closed without any send
ResolvedByClosedSignal ==
    /\ pc = "await_resolved"
    /\ sendAttempts = 0
    /\ sender = "dropped"
    /\ awaitOut = "unit"

\* C16: cancelling a suspended await_umount discards the handle: the token
\* is released and the thread detached, never joined, without waiting for
\* the worker; the wait yields nothing to the caller, and the worker then
\* terminates by itself.
CancelReleasesWithoutJoining ==
    /\ [](pc \in {"cancelling", "await_cancelled"}
             => guard # "joined" /\ recvResult = "none" /\ awaitOut = "none"
                /\ awaitResolves = 0)
    /\ [](pc = "await_cancelled"
             => tokenOwner = "none" /\ tokenReleases = 1 /\ ~mounted
                /\ guard = "detached" /\ receiver = "closed")
    /\ [](pc = "awaiting" => ENABLED AwaitCancel)
    /\ [](pc = "cancelling"
             => ENABLED (CancelDropMount \/ CancelDropReceiver \/ CancelDone))
    /\ (pc = "await_cancelled" ~> WorkerTerminated)

\* the cancellation is complete while the worker is still inside run()
CancelledWhileWorkerInRun ==
    pc = "await_cancelled" /\ worker = "in_run" /\ guard = "detached"

\* C17: given that run() returns once its mount point is inactive, a join
\* that has been called leaves its wait: it returns or aborts, whatever
\* state the worker was in when join was called.
JoinTerminates ==
    /\ [](pc = "created" => ENABLED JoinBegin)
    /\ (pc = "join_wait" ~> pc \in {"join_returned", "join_aborted"})

\* join returned after its own unmount made the running loop return
JoinReturnedAfterOwnUnmount ==
    pc = "join_returned" /\ unmountBy = "handle" /\ cause = "unmount"

\* C18: run() is invoked at most once, by the spawned thread that owns the
\* session, and only when the Mount is no longer in the session; the token
\* is never owned by the worker, and it is released only by the caller's
\* join, await_umount or drop, never while the caller just holds the handle
\* or is suspended.
RunOnceAfterTokenExtracted ==
    /\ runCalls <= 1
    /\ runCalls = 1 <=> worker \notin {"none", "spawned"}
    /\ runCalls = 1 => hadMount /\ ~seMount /\ threadsSpawned = 1
                        /\ seOwner \in {"worker", "dropped"}
    /\ seOwner = "worker" => ~seMount /\ tokenOwner # "session"
    /\ pc \in {"start", "new_failed", "created", "awaiting"}
          => tokenReleases = 0

\* the worker is inside run() while the handle owns the token
RunningWithTokenInHandle ==
    worker = "in_run" /\ runCalls = 1 /\ tokenOwner = "handle"

\* C19 as claimed: the handle is reclaimed only after the worker's run()
\* has ended (returned, or unwound by a panic).
ReclaimedOnlyAfterRunReturned ==
    Reclaimed => worker \in {"run_returned", "signalled", "exited", "panicked"}

\* C19: the worker only moves forward through spawned, running, run()
\* ended, terminated.  A handle reclaimed by join is reclaimed after the
\* worker terminated, and one reclaimed by a resolved await_umount after
\* run() ended by returning or panicking; a handle reclaimed by drop or by
\* a cancelled await_umount may be reclaimed at any point of the worker.
LifecycleOrder ==
    /\ [][\/ worker' = worker
          \/ worker = "none" /\ worker' = "spawned"
          \/ worker = "spawned" /\ worker' = "in_run"
          \/ worker = "in_run" /\ worker' \in {"run_returned", "panicked"}
          \/ worker = "run_returned" /\ worker' = "signalled"
          \/ worker = "signalled" /\ worker' = "exited"]_vars
    /\ [](pc \in {"join_returned", "join_aborted"} => WorkerTerminated)
    /\ [](pc = "await_resolved"
             => worker \in {"signalled", "exited", "panicked"})
    /\ [](Reclaimed => worker # "none")

\* the handle was reclaimed by a drop before the worker even called run()
DroppedBeforeRunStarted ==
    pc = "dropped" /\ worker = "spawned" /\ runCalls = 0

\* C20: when await_umount has completed, the rest of the handle has been
\* torn down with it: the token is released, the mount point inactive, and
\* the thread detached, not joined, so the worker may not have exited yet;
\* its result is not passed on.
AwaitResolveTearsDownHandle ==
    pc = "await_resolved"
        => /\ tokenOwner = "none"
           /\ tokenReleases = 1
           /\ ~mounted
           /\ guard = "detached"
           /\ receiver = "closed"
           /\ awaitOut = "unit"

\* await_umount completed, token released, worker thread still finishing
ResolvedWhileWorkerFinishing ==
    /\ pc = "await_resolved"
    /\ worker = "signalled"
    /\ guard = "detached"
    /\ tokenReleases = 1
====
